---- MODULE Spec2Model ----
(***************************************************************************)
(* A model of queue.c: a singly linked queue of owned strings with a       *)
(* cached last element and a cached count.                                 *)
(*                                                                         *)
(* The heap is modelled explicitly.  Node blocks and string blocks are     *)
(* numbered 1..MaxNodes; NULL is 0.  next[n] and value[n] are the fields   *)
(* of node block n, str[v] is the byte content of string block v (without  *)
(* its terminator), nodes and strs are the sets of live blocks.  Fields of *)
(* blocks that are not live are kept at NULL / <<>>.  A string is a        *)
(* sequence of non-zero bytes.                                             *)
(*                                                                         *)
(* Every action is one call of a public function, from entry to return.    *)
(* op records the call that produced the current state: its name, its      *)
(* arguments, the allocation that was refused during it, its return value, *)
(* the bytes it wrote to the caller's buffer, and the name of the call     *)
(* before it.  nIns and nRem count the successful insertions and removals  *)
(* on the current queue.                                                   *)
(***************************************************************************)
EXTENDS Integers, Sequences, FiniteSets, TLC

NULL == 0

\* Bounds of the model.
MaxNodes == 3
MaxIns == 4

\* The strings the caller passes: a string, a proper extension of it, and
\* a string that differs in the first byte.
Strings == {<<1>>, <<1, 2>>, <<2>>}

\* The buffer capacities the caller passes to q_remove_head.
BufSizes == 0 .. 3

\* The largest value of size_t, narrowed to 16 bits.  The model only needs
\* it to exceed every string length, as the real value (2^64 - 1 on LP64)
\* does; the wrap of 0 - 1 to SIZE_MAX is kept.
SIZE_MAX == 65535

VARIABLES q, head, last_element, count, next, value, str, nodes, strs,
          op, nIns, nRem

vars == <<q, head, last_element, count, next, value, str, nodes, strs,
          op, nIns, nRem>>

Blocks == 1 .. MaxNodes

(***************************************************************************)
(* The allocator.  Block identities are interchangeable, so malloc hands   *)
(* out the lowest free block; a refused allocation is an input of the      *)
(* calling action.                                                         *)
(***************************************************************************)
malloc(live) == CHOOSE b \in Blocks \ live : \A c \in Blocks \ live : b <= c

free(live, b) == live \ {b}

strlen(s) == Len(s)

\* A copy that is one byte short.
strncpy_Short(s, len) == SubSeq(s, 1, len - 1)

\* strncpy(dst, s, len); dst[len] = '\0'
strncpy(s, len) == SubSeq(s, 1, len)

\* Byte-wise comparison up to and including the terminator; the result is
\* the difference of the first differing bytes.
RECURSIVE strcmp(_, _)
strcmp(a, b) ==
    LET ca == IF a = <<>> THEN 0 ELSE Head(a)
        cb == IF b = <<>> THEN 0 ELSE Head(b)
    IN  IF ca # cb THEN ca - cb
        ELSE IF ca = 0 THEN 0
        ELSE strcmp(Tail(a), Tail(b))

\* A comparator with its arguments exchanged.
comparator_Swapped(a, b) == strcmp(str[value[b]], str[value[a]])

comparator(a, b) == strcmp(str[value[a]], str[value[b]])

\* The record of a call.
Call(name, ret, s, failAt, sp, bufsize, out, n) ==
    [name |-> name, ret |-> ret, s |-> s, failAt |-> failAt, sp |-> sp,
     bufsize |-> bufsize, out |-> out, n |-> n, prev |-> op.name]

Init ==
    /\ q = "null"
    /\ head = NULL
    /\ last_element = NULL
    /\ count = 0
    /\ next = [b \in Blocks |-> NULL]
    /\ value = [b \in Blocks |-> NULL]
    /\ str = [b \in Blocks |-> <<>>]
    /\ nodes = {}
    /\ strs = {}
    /\ op = [name |-> "start", ret |-> FALSE, s |-> <<>>, failAt |-> "none",
             sp |-> FALSE, bufsize |-> 0, out |-> <<>>, n |-> 0,
             prev |-> "start"]
    /\ nIns = 0
    /\ nRem = 0

(***************************************************************************)
(* q_new                                                                   *)
(***************************************************************************)
q_new(fail) ==
    /\ q # "live"
    /\ q' = IF fail THEN "null" ELSE "live"
    /\ head' = NULL
    /\ count' = 0
    /\ last_element' = head'
    /\ nIns' = 0
    /\ nRem' = 0
    /\ op' = Call("q_new", ~fail, <<>>, "none", FALSE, 0, <<>>, 0)
    /\ UNCHANGED <<next, value, str, nodes, strs>>

(***************************************************************************)
(* q_free                                                                  *)
(***************************************************************************)
\* A loop that releases the nodes and keeps their strings.
RECURSIVE FreeLoop_LeakValue(_, _)
FreeLoop_LeakValue(h, heap) ==
    IF h = NULL THEN heap
    ELSE LET tmp == h
         IN  FreeLoop_LeakValue(heap.next[tmp],
                                [next  |-> [heap.next EXCEPT ![tmp] = NULL],
                                 value |-> [heap.value EXCEPT ![tmp] = NULL],
                                 str   |-> heap.str,
                                 nodes |-> free(heap.nodes, tmp),
                                 strs  |-> heap.strs])

\* The loop of q_free: the heap after every element from h on is released.
RECURSIVE FreeLoop(_, _)
FreeLoop(h, heap) ==
    IF h = NULL THEN heap
    ELSE LET tmp == h
         IN  FreeLoop(heap.next[tmp],
                      [next  |-> [heap.next EXCEPT ![tmp] = NULL],
                       value |-> [heap.value EXCEPT ![tmp] = NULL],
                       str   |-> [heap.str EXCEPT ![heap.value[tmp]] = <<>>],
                       nodes |-> free(heap.nodes, tmp),
                       strs  |-> free(heap.strs, heap.value[tmp])])

q_free ==
    /\ q # "freed"
    /\ op' = Call("q_free", FALSE, <<>>, "none", FALSE, 0, <<>>, 0)
    /\ IF q = "null"
       THEN UNCHANGED <<q, head, last_element, count, next, value, str,
                        nodes, strs, nIns, nRem>>
       ELSE LET heap == FreeLoop(head, [next |-> next, value |-> value,
                                        str |-> str, nodes |-> nodes,
                                        strs |-> strs])
            IN  /\ q' = "freed"
                /\ head' = NULL
                /\ last_element' = NULL
                /\ count' = 0
                /\ next' = heap.next
                /\ value' = heap.value
                /\ str' = heap.str
                /\ nodes' = heap.nodes
                /\ strs' = heap.strs
                /\ nIns' = 0
                /\ nRem' = 0

(***************************************************************************)
(* q_insert_head                                                           *)
(***************************************************************************)
\* Creation of the new element.  failAt names the allocation that is
\* refused: "node", "value" or "none".
InsertHeadElement(s, failAt) ==
    LET newh == malloc(nodes)
        len == strlen(s)
    IN  IF failAt = "node"
        THEN [ok |-> FALSE, newh |-> NULL, value |-> value, str |-> str,
              nodes |-> nodes, strs |-> strs]
        ELSE LET v == malloc(strs)
             IN  IF failAt = "value"
                 THEN [ok |-> FALSE, newh |-> NULL, value |-> value,
                       str |-> str,
                       nodes |-> free(nodes \cup {newh}, newh),
                       strs |-> strs]
                 ELSE [ok |-> TRUE, newh |-> newh,
                       value |-> [value EXCEPT ![newh] = v],
                       str |-> [str EXCEPT ![v] = strncpy(s, len)],
                       nodes |-> nodes \cup {newh},
                       strs |-> strs \cup {v}]

\* A q_insert_head that does not count the new element.
InsertHeadLink_NoCount(newh) ==
    /\ next' = [next EXCEPT ![newh] = head]
    /\ head' = newh
    /\ count' = count
    /\ last_element' = IF next'[newh] = NULL THEN newh ELSE last_element

\* A q_insert_head that always takes the new element for the last one.
InsertHeadLink_AlwaysLast(newh) ==
    /\ next' = [next EXCEPT ![newh] = head]
    /\ head' = newh
    /\ count' = count + 1
    /\ last_element' = newh

\* Attach the new element at the head of the list.
InsertHeadLink(newh) ==
    /\ next' = [next EXCEPT ![newh] = head]
    /\ head' = newh
    /\ count' = count + 1
    /\ last_element' = IF next'[newh] = NULL THEN newh ELSE last_element

\* A q_insert_head without the test of q.
q_insert_head_NoNullCheck(s, failAt) ==
    /\ q # "freed"
    /\ nIns < MaxIns
    /\ Cardinality(nodes) < MaxNodes
    /\ UNCHANGED <<q, nRem>>
    /\ LET e == InsertHeadElement(s, failAt)
       IN  /\ op' = Call("q_insert_head", e.ok, s, failAt, FALSE, 0, <<>>, 0)
           /\ value' = e.value
           /\ str' = e.str
           /\ nodes' = e.nodes
           /\ strs' = e.strs
           /\ IF e.ok
              THEN InsertHeadLink(e.newh) /\ nIns' = nIns + 1
              ELSE UNCHANGED <<head, last_element, count, next, nIns>>

q_insert_head(s, failAt) ==
    /\ q # "freed"
    /\ nIns < MaxIns
    /\ Cardinality(nodes) < MaxNodes
    /\ UNCHANGED <<q, nRem>>
    /\ IF q = "null"
       THEN /\ op' = Call("q_insert_head", FALSE, s, "none", FALSE, 0, <<>>, 0)
            /\ UNCHANGED <<head, last_element, count, next, value, str,
                           nodes, strs, nIns>>
       ELSE LET e == InsertHeadElement(s, failAt)
            IN  /\ op' = Call("q_insert_head", e.ok, s, failAt, FALSE, 0, <<>>,
                             0)
                /\ value' = e.value
                /\ str' = e.str
                /\ nodes' = e.nodes
                /\ strs' = e.strs
                /\ IF e.ok
                   THEN InsertHeadLink(e.newh) /\ nIns' = nIns + 1
                   ELSE UNCHANGED <<head, last_element, count, next, nIns>>

(***************************************************************************)
(* q_insert_tail                                                           *)
(***************************************************************************)
\* A q_insert_tail that keeps the node when the string is refused.
InsertTailElement_Leak(s, failAt) ==
    LET newh == malloc(nodes)
        len == strlen(s)
    IN  IF failAt = "node"
        THEN [ok |-> FALSE, newh |-> NULL, value |-> value, str |-> str,
              nodes |-> nodes, strs |-> strs]
        ELSE LET v == malloc(strs)
             IN  IF failAt = "value"
                 THEN [ok |-> FALSE, newh |-> NULL, value |-> value,
                       str |-> str,
                       nodes |-> nodes \cup {newh},
                       strs |-> strs]
                 ELSE [ok |-> TRUE, newh |-> newh,
                       value |-> [value EXCEPT ![newh] = v],
                       str |-> [str EXCEPT ![v] = strncpy(s, len)],
                       nodes |-> nodes \cup {newh},
                       strs |-> strs \cup {v}]

InsertTailElement(s, failAt) ==
    LET newh == malloc(nodes)
        len == strlen(s)
    IN  IF failAt = "node"
        THEN [ok |-> FALSE, newh |-> NULL, value |-> value, str |-> str,
              nodes |-> nodes, strs |-> strs]
        ELSE LET v == malloc(strs)
             IN  IF failAt = "value"
                 THEN [ok |-> FALSE, newh |-> NULL, value |-> value,
                       str |-> str,
                       nodes |-> free(nodes \cup {newh}, newh),
                       strs |-> strs]
                 ELSE [ok |-> TRUE, newh |-> newh,
                       value |-> [value EXCEPT ![newh] = v],
                       str |-> [str EXCEPT ![v] = strncpy(s, len)],
                       nodes |-> nodes \cup {newh},
                       strs |-> strs \cup {v}]

\* Insert the new element, whose next is NULL, at the tail of the list.
InsertTailLink(newh) ==
    /\ IF last_element = NULL
       THEN /\ head' = newh
            /\ last_element' = newh
            /\ next' = [next EXCEPT ![newh] = NULL]
       ELSE /\ next' = [next EXCEPT ![newh] = NULL, ![last_element] = newh]
            /\ last_element' = newh
            /\ head' = head
    /\ count' = count + 1

q_insert_tail(s, failAt) ==
    /\ q # "freed"
    /\ nIns < MaxIns
    /\ Cardinality(nodes) < MaxNodes
    /\ UNCHANGED <<q, nRem>>
    /\ IF q = "null"
       THEN /\ op' = Call("q_insert_tail", FALSE, s, "none", FALSE, 0, <<>>, 0)
            /\ UNCHANGED <<head, last_element, count, next, value, str,
                           nodes, strs, nIns>>
       ELSE LET e == InsertTailElement(s, failAt)
            IN  /\ op' = Call("q_insert_tail", e.ok, s, failAt, FALSE, 0, <<>>,
                             0)
                /\ value' = e.value
                /\ str' = e.str
                /\ nodes' = e.nodes
                /\ strs' = e.strs
                /\ IF e.ok
                   THEN InsertTailLink(e.newh) /\ nIns' = nIns + 1
                   ELSE UNCHANGED <<head, last_element, count, next, nIns>>

(***************************************************************************)
(* q_remove_head                                                           *)
(***************************************************************************)
\* bufsize - 1 in size_t arithmetic.
SizeSub1(bufsize) == (bufsize - 1) % (SIZE_MAX + 1)

\* A copy bounded by bufsize instead of bufsize - 1.
RemoveCopy_OffByOne(sp, bufsize) ==
    IF sp
    THEN LET v == str[value[head]]
             realBufsize == IF strlen(v) < bufsize THEN strlen(v) ELSE bufsize
         IN  SubSeq(v, 1, realBufsize) \o <<0>>
    ELSE <<>>

\* The bytes the call writes through sp, terminator included: the memcpy
\* of realBufsize bytes and the store of '\0' behind them.  Nothing here
\* looks at the capacity of the caller's buffer other than through
\* bufsize - 1, so the result may be longer than bufsize; the bytes behind
\* the buffer belong to the caller, whose memory the model does not hold.
RemoveCopy(sp, bufsize) ==
    IF sp
    THEN LET v == str[value[head]]
             realBufsize == IF strlen(v) < SizeSub1(bufsize)
                            THEN strlen(v)
                            ELSE SizeSub1(bufsize)
         IN  SubSeq(v, 1, realBufsize) \o <<0>>
    ELSE <<>>

\* A q_remove_head that never clears last_element.
RemoveLast_Stale(h) == last_element

\* Whether last_element is cleared once the head has been advanced to h.
RemoveLast(h) == IF h = NULL THEN NULL ELSE last_element

\* Unlink the head element and release its string and its node.
RemoveUnlink ==
    LET target == head
    IN  /\ head' = next[head]
        /\ count' = count - 1
        /\ str' = [str EXCEPT ![value[target]] = <<>>]
        /\ strs' = free(strs, value[target])
        /\ value' = [value EXCEPT ![target] = NULL]
        /\ next' = [next EXCEPT ![target] = NULL]
        /\ nodes' = free(nodes, target)
        /\ last_element' = RemoveLast(head')

\* A q_remove_head that terminates the buffer before it looks at the queue.
q_remove_head_WritesOnEmpty(sp, bufsize) ==
    /\ q # "freed"
    /\ UNCHANGED <<q, nIns>>
    /\ IF q = "null" \/ head = NULL
       THEN /\ op' = Call("q_remove_head", FALSE, <<>>, "none", sp, bufsize,
                          IF sp THEN <<0>> ELSE <<>>, 0)
            /\ UNCHANGED <<head, last_element, count, next, value, str,
                           nodes, strs, nRem>>
       ELSE /\ op' = Call("q_remove_head", TRUE, <<>>, "none", sp, bufsize,
                          RemoveCopy(sp, bufsize), 0)
            /\ RemoveUnlink
            /\ nRem' = nRem + 1

q_remove_head(sp, bufsize) ==
    /\ q # "freed"
    /\ UNCHANGED <<q, nIns>>
    /\ IF q = "null" \/ head = NULL
       THEN /\ op' = Call("q_remove_head", FALSE, <<>>, "none", sp, bufsize,
                          <<>>, 0)
            /\ UNCHANGED <<head, last_element, count, next, value, str,
                           nodes, strs, nRem>>
       ELSE /\ op' = Call("q_remove_head", TRUE, <<>>, "none", sp, bufsize,
                          RemoveCopy(sp, bufsize), 0)
            /\ RemoveUnlink
            /\ nRem' = nRem + 1

(***************************************************************************)
(* q_size                                                                  *)
(***************************************************************************)
q_size ==
    /\ q # "freed"
    /\ op' = Call("q_size", FALSE, <<>>, "none", FALSE, 0, <<>>,
                  IF q # "null" THEN count ELSE 0)
    /\ UNCHANGED <<q, head, last_element, count, next, value, str, nodes,
                   strs, nIns, nRem>>

(***************************************************************************)
(* q_reverse                                                               *)
(***************************************************************************)
\* A loop that stops at the last node instead of behind it.
RECURSIVE ReverseLoop_Short(_, _, _)
ReverseLoop_Short(nx, prev, current) ==
    IF current = NULL \/ nx[current] = NULL
    THEN [next |-> nx, prev |-> prev]
    ELSE LET temp == nx[current]
         IN  ReverseLoop_Short([nx EXCEPT ![current] = prev], current, temp)

\* The loop of q_reverse; the result holds the links and the final prev.
RECURSIVE ReverseLoop(_, _, _)
ReverseLoop(nx, prev, current) ==
    IF current = NULL THEN [next |-> nx, prev |-> prev]
    ELSE LET temp == nx[current]
         IN  ReverseLoop([nx EXCEPT ![current] = prev], current, temp)

\* A q_reverse that leaves last_element alone.
Reverse_StaleLast(h, l, nx) ==
    LET r == ReverseLoop(nx, NULL, h)
    IN  [head |-> r.prev, last_element |-> l, next |-> r.next]

\* The body of q_reverse on a queue with fields h, l and links nx.
Reverse(h, l, nx) ==
    LET r == ReverseLoop(nx, NULL, h)
    IN  [head |-> r.prev, last_element |-> h, next |-> r.next]

q_reverse ==
    /\ q # "freed"
    /\ op' = Call("q_reverse", FALSE, <<>>, "none", FALSE, 0, <<>>, 0)
    /\ UNCHANGED <<q, count, value, str, nodes, strs, nIns, nRem>>
    /\ IF q = "null"
       THEN UNCHANGED <<head, last_element, next>>
       ELSE LET r == Reverse(head, last_element, next)
            IN  /\ last_element' = r.last_element
                /\ next' = r.next
                /\ head' = r.head

(***************************************************************************)
(* q_sort and mergesort                                                    *)
(***************************************************************************)
\* A scan that never advances: the chain is cut behind its first node.
SplitScan_Front(nx, slow, fast) == slow

\* The fast/slow scan; the result is the final slow.
RECURSIVE SplitScan(_, _, _)
SplitScan(nx, slow, fast) ==
    IF nx[fast] # NULL /\ nx[nx[fast]] # NULL
    THEN SplitScan(nx, nx[slow], nx[nx[fast]])
    ELSE slow

\* A merge loop that stops as soon as one of the two chains is used up.
RECURSIVE MergeLoop_And(_, _, _, _, _)
MergeLoop_And(nx, left, right, merge, start) ==
    IF left = NULL \/ right = NULL THEN [start |-> start, next |-> nx]
    ELSE IF comparator(left, right) < 0
    THEN LET nxt == nx[left]
             linked == IF merge = NULL THEN nx
                       ELSE [nx EXCEPT ![merge] = left]
         IN  MergeLoop_And([linked EXCEPT ![left] = NULL], nxt, right, left,
                           IF merge = NULL THEN left ELSE start)
    ELSE LET nxt == nx[right]
             linked == IF merge = NULL THEN nx
                       ELSE [nx EXCEPT ![merge] = right]
         IN  MergeLoop_And([linked EXCEPT ![right] = NULL], left, nxt, right,
                           IF merge = NULL THEN right ELSE start)

\* The merge loop; the result holds the links and the final start.
RECURSIVE MergeLoop(_, _, _, _, _)
MergeLoop(nx, left, right, merge, start) ==
    IF left = NULL /\ right = NULL THEN [start |-> start, next |-> nx]
    ELSE IF right = NULL \/ (left # NULL /\ comparator(left, right) < 0)
    THEN LET nxt == nx[left]
             linked == IF merge = NULL THEN nx
                       ELSE [nx EXCEPT ![merge] = left]
         IN  MergeLoop([linked EXCEPT ![left] = NULL], nxt, right, left,
                       IF merge = NULL THEN left ELSE start)
    ELSE LET nxt == nx[right]
             linked == IF merge = NULL THEN nx
                       ELSE [nx EXCEPT ![merge] = right]
         IN  MergeLoop([linked EXCEPT ![right] = NULL], left, nxt, right,
                       IF merge = NULL THEN right ELSE start)

RECURSIVE mergesort(_, _)
mergesort(start, nx) ==
    IF start = NULL \/ nx[start] = NULL THEN [start |-> start, next |-> nx]
    ELSE LET slow == SplitScan(nx, start, start)
             l == mergesort(start, [nx EXCEPT ![slow] = NULL])
             r == mergesort(nx[slow], l.next)
         IN  MergeLoop(r.next, l.start, r.start, NULL, start)

\* A q_sort that takes the sorted head for the last node.
TailWalk_NoWalk(nx, end) == end

\* The walk from the sorted head to the last node.
RECURSIVE TailWalk(_, _)
TailWalk(nx, end) == IF nx[end] # NULL THEN TailWalk(nx, nx[end]) ELSE end

q_sort ==
    /\ q # "freed"
    /\ op' = Call("q_sort", FALSE, <<>>, "none", FALSE, 0, <<>>, 0)
    /\ UNCHANGED <<q, count, value, str, nodes, strs, nIns, nRem>>
    /\ IF q = "null" \/ head = NULL \/ count = 1
       THEN UNCHANGED <<head, last_element, next>>
       ELSE LET m == mergesort(head, next)
            IN  /\ head' = m.start
                /\ next' = m.next
                /\ last_element' = TailWalk(m.next, m.start)

(***************************************************************************)
(* The harness calls the operations in any order, with any argument, and   *)
(* may refuse any allocation.                                              *)
(***************************************************************************)
Next ==
    \/ \E fail \in BOOLEAN : q_new(fail)
    \/ q_free
    \/ \E s \in Strings, failAt \in {"none", "node", "value"} :
          q_insert_head(s, failAt)
    \/ \E s \in Strings, failAt \in {"none", "node", "value"} :
          q_insert_tail(s, failAt)
    \/ \E sp \in BOOLEAN, bufsize \in BufSizes : q_remove_head(sp, bufsize)
    \/ q_size
    \/ q_reverse
    \/ q_sort

Spec == Init /\ [][Next]_vars

(***************************************************************************)
(* Observations of a state.                                                *)
(***************************************************************************)
\* The nodes met when following nx from h, at most fuel of them.
RECURSIVE ChainFrom(_, _, _)
ChainFrom(h, nx, fuel) ==
    IF h = NULL \/ fuel = 0 THEN <<>>
    ELSE <<h>> \o ChainFrom(nx[h], nx, fuel - 1)

\* The elements of the queue from head on, and their strings.
Elements == ChainFrom(head, next, MaxNodes + 1)
Contents == [i \in 1 .. Len(Elements) |-> str[value[Elements[i]]]]

TypeOK ==
    /\ q \in {"null", "live", "freed"}
    /\ head \in Blocks \cup {NULL}
    /\ last_element \in Blocks \cup {NULL}
    /\ count \in 0 .. MaxNodes
    /\ next \in [Blocks -> Blocks \cup {NULL}]
    /\ value \in [Blocks -> Blocks \cup {NULL}]
    /\ nodes \subseteq Blocks
    /\ strs \subseteq Blocks

Inserts == {"q_insert_head", "q_insert_tail"}

(***************************************************************************)
(* C1: in every reachable state head is NULL if and only if last_element   *)
(* is NULL if and only if count is 0.                                      *)
(***************************************************************************)
C1_EmptyIff ==
    /\ (head = NULL) <=> (last_element = NULL)
    /\ (last_element = NULL) <=> (count = 0)

\* A removal has just emptied a queue that held an element.
C1_Witness ==
    /\ q = "live"
    /\ op.name = "q_remove_head"
    /\ op.ret
    /\ head = NULL
    /\ nRem >= 1

(***************************************************************************)
(* C2: in a non-empty queue last_element is the node met last when         *)
(* following next from head, and its next is NULL; a successful            *)
(* q_insert_tail, also right after q_reverse or q_sort, puts the new node  *)
(* behind the elements that were there.                                    *)
(***************************************************************************)
TailIsLast ==
    head # NULL =>
        /\ Elements # <<>>
        /\ last_element = Elements[Len(Elements)]
        /\ next[last_element] = NULL

AppendsAtEnd ==
    (op'.name = "q_insert_tail" /\ op'.ret) =>
        /\ Len(Elements') = Len(Elements) + 1
        /\ SubSeq(Elements', 1, Len(Elements)) = Elements

C2_TailIsLast == []TailIsLast /\ [][AppendsAtEnd]_vars

\* An element has just been appended to a queue that was sorted by the
\* call before, and the sort had moved the last element.
C2_Witness ==
    /\ op.name = "q_insert_tail"
    /\ op.ret
    /\ op.prev = "q_sort"
    /\ count = 3
    /\ Elements[2] < Elements[1]

(***************************************************************************)
(* C3: q_size returns count, count is the number of nodes reachable from   *)
(* head, and it is the number of successful insertions minus the number    *)
(* of successful removals; a failed insertion, a failed removal,           *)
(* q_reverse and q_sort leave it as it was.                                *)
(***************************************************************************)
SizeIsLength ==
    /\ count = Len(Elements)
    /\ count = nIns - nRem
    /\ op.name = "q_size" => op.n = count

SizeKept ==
    (\/ op'.name \in {"q_reverse", "q_sort"}
     \/ op'.name \in Inserts \cup {"q_remove_head"} /\ ~op'.ret) =>
        /\ count' = count
        /\ Len(Elements') = Len(Elements)

C3_Size == []SizeIsLength /\ [][SizeKept]_vars

\* q_size is called after insertions and a removal.
C3_Witness ==
    /\ op.name = "q_size"
    /\ op.n = 2
    /\ nIns = 3
    /\ nRem = 1

(***************************************************************************)
(* C4: an insertion whose node or string allocation is refused returns     *)
(* false, leaves head, last_element, count and the elements as they were,  *)
(* and leaves no block of its own allocated.                               *)
(***************************************************************************)
C4_FailedInsert ==
    [][(op'.name \in Inserts /\ op'.failAt # "none") =>
          /\ ~op'.ret
          /\ head' = head
          /\ last_element' = last_element
          /\ count' = count
          /\ Elements' = Elements
          /\ Contents' = Contents
          /\ next' = next
          /\ nodes' = nodes
          /\ strs' = strs]_vars

\* The string allocation of a q_insert_tail on a queue of two was refused.
C4_Witness ==
    /\ op.name = "q_insert_tail"
    /\ op.failAt = "value"
    /\ ~op.ret
    /\ count = 2

\* The sequence seq read backwards.
Rev(seq) == [i \in 1 .. Len(seq) |-> seq[Len(seq) + 1 - i]]

\* The place of x in a sequence that holds it.
Pos(seq, x) == CHOOSE i \in 1 .. Len(seq) : seq[i] = x

\* The set of the entries of seq.
Range(seq) == {seq[i] : i \in 1 .. Len(seq)}

\* a is not behind b in the byte-wise lexicographic order.
RECURSIVE LexLeq(_, _)
LexLeq(a, b) ==
    \/ a = <<>>
    \/ /\ b # <<>>
       /\ \/ Head(a) < Head(b)
          \/ Head(a) = Head(b) /\ LexLeq(Tail(a), Tail(b))

(***************************************************************************)
(* C5: q_sort is stable: two elements with the same string are in the      *)
(* same order after q_sort as before it.                                   *)
(***************************************************************************)
C5_Stable ==
    [][op'.name = "q_sort" =>
          \A i, j \in 1 .. Len(Elements) :
              (i < j /\ Contents[i] = Contents[j]) =>
                  Pos(Elements', Elements[i]) < Pos(Elements', Elements[j])]_vars

(***************************************************************************)
(* C6: after q_sort on a queue of two or more elements the strings are in  *)
(* ascending byte-wise order from head on, the nodes are the nodes from    *)
(* before, each once and with its string, and count is unchanged.          *)
(***************************************************************************)
C6_Sorted ==
    [][(op'.name = "q_sort" /\ count >= 2) =>
          /\ \A i \in 1 .. Len(Contents') - 1 :
                 LexLeq(Contents'[i], Contents'[i + 1])
          /\ Len(Elements') = Len(Elements)
          /\ Range(Elements') = Range(Elements)
          /\ Cardinality(Range(Elements')) = Len(Elements')
          /\ \A n \in Range(Elements) : str'[value'[n]] = str[value[n]]
          /\ count' = count]_vars

\* The strings 12, 1, 2 were appended in this order and then sorted.
C6_Witness ==
    /\ op.name = "q_sort"
    /\ op.prev = "q_insert_tail"
    /\ Elements = <<2, 1, 3>>
    /\ Contents = <<<<1>>, <<1, 2>>, <<2>>>>

(***************************************************************************)
(* C7: q_sort is idempotent: a q_sort that follows a q_sort leaves the     *)
(* sequence of nodes from head on as it was.                               *)
(***************************************************************************)
C7_Idempotent ==
    [][(op.name = "q_sort" /\ op'.name = "q_sort") =>
          Elements' = Elements]_vars

(***************************************************************************)
(* C8: q_reverse followed by q_reverse restores head, last_element, the    *)
(* links and so the sequence of elements, and leaves count unchanged: on   *)
(* the state a q_reverse produces, the body of q_reverse yields the state  *)
(* the q_reverse started from.                                             *)
(***************************************************************************)
C8_ReverseTwice ==
    [][(op'.name = "q_reverse" /\ q = "live") =>
          LET r == Reverse(head', last_element', next')
          IN  /\ r.head = head
              /\ r.last_element = last_element
              /\ r.next = next
              /\ ChainFrom(r.head, r.next, MaxNodes + 1) = Elements
              /\ count' = count]_vars

\* A queue of three has been reversed twice in a row.
C8_Witness ==
    /\ op.name = "q_reverse"
    /\ op.prev = "q_reverse"
    /\ count = 3

(***************************************************************************)
(* C9: after q_reverse the elements are in the opposite order, the former  *)
(* head is last_element, the former last_element is head, and count is     *)
(* unchanged.                                                              *)
(***************************************************************************)
C9_ReverseOnce ==
    [][(op'.name = "q_reverse" /\ q = "live") =>
          /\ Elements' = Rev(Elements)
          /\ Contents' = Rev(Contents)
          /\ last_element' = head
          /\ head' = last_element
          /\ count' = count]_vars

\* Three appended elements have been reversed.
C9_Witness ==
    /\ op.name = "q_reverse"
    /\ op.prev = "q_insert_tail"
    /\ Elements = <<3, 2, 1>>

(***************************************************************************)
(* C10: the strings of the queue behave as a sequence: a successful        *)
(* q_insert_head(s) puts s in front, a successful q_insert_tail(s) puts s  *)
(* at the end, a successful q_remove_head takes the first string away and  *)
(* writes it, terminated, to a buffer that is supplied and large enough.   *)
(***************************************************************************)
C10_Refines ==
    [][/\ (op'.name = "q_insert_head" /\ op'.ret) =>
              Contents' = <<op'.s>> \o Contents
       /\ (op'.name = "q_insert_tail" /\ op'.ret) =>
              Contents' = Append(Contents, op'.s)
       /\ (op'.name = "q_remove_head" /\ op'.ret) =>
              /\ Contents # <<>>
              /\ Contents' = Tail(Contents)
              /\ (op'.sp /\ op'.bufsize > Len(Head(Contents))) =>
                     op'.out = Append(Head(Contents), 0)]_vars

\* The string 12, inserted at the head by the call before, is removed and
\* reported in full while another element stays behind.
C10_Witness ==
    /\ op.name = "q_remove_head"
    /\ op.ret
    /\ op.prev = "q_insert_head"
    /\ op.sp
    /\ op.out = <<1, 2, 0>>
    /\ count = 1

\* The lesser of two numbers.
Min(a, b) == IF a < b THEN a ELSE b

(***************************************************************************)
(* C11: a successful q_remove_head with a buffer and bufsize >= 1 writes   *)
(* the first min(length, bufsize - 1) bytes of the removed string and one  *)
(* terminator behind them; it succeeds and removes the element also when   *)
(* the string is longer than bufsize - 1.                                  *)
(***************************************************************************)
C11_Truncates ==
    [][(op'.name = "q_remove_head" /\ q = "live" /\ head # NULL
        /\ op'.sp /\ op'.bufsize >= 1) =>
          LET v == Head(Contents)
              k == Min(Len(v), op'.bufsize - 1)
          IN  /\ op'.ret
              /\ op'.out = Append(SubSeq(v, 1, k), 0)
              /\ Len(op'.out) = k + 1
              /\ Contents' = Tail(Contents)
              /\ count' = count - 1]_vars

\* A removal with a buffer of one byte: every string is longer than
\* bufsize - 1 = 0, and only the terminator was written.
C11_Witness ==
    /\ op.name = "q_remove_head"
    /\ op.ret
    /\ op.sp
    /\ op.bufsize = 1
    /\ op.out = <<0>>

(***************************************************************************)
(* C12: q_remove_head writes at most bufsize bytes, terminator included,   *)
(* through sp, for every bufsize, 0 included.                              *)
(***************************************************************************)
C12_NoOverrun ==
    (op.name = "q_remove_head" /\ op.sp) => Len(op.out) <= op.bufsize

(***************************************************************************)
(* C13: q_remove_head on an empty queue returns false, writes nothing      *)
(* through sp and leaves head, last_element and count as they were; so     *)
(* does the removal that follows the removal of the last element.          *)
(***************************************************************************)
C13_RemoveEmpty ==
    [][(op'.name = "q_remove_head" /\ q = "live" /\ count = 0) =>
          /\ ~op'.ret
          /\ op'.out = <<>>
          /\ head' = head
          /\ last_element' = last_element
          /\ count' = 0
          /\ nodes' = nodes
          /\ strs' = strs]_vars

\* Two elements were inserted and removed, and the removal after that,
\* called with a buffer, failed.
C13_Witness ==
    /\ op.name = "q_remove_head"
    /\ op.prev = "q_remove_head"
    /\ ~op.ret
    /\ op.sp
    /\ q = "live"
    /\ nIns = 2
    /\ nRem = 2

\* The public functions that take the queue handle.
HandleOps == {"q_free", "q_insert_head", "q_insert_tail", "q_remove_head",
              "q_size", "q_reverse", "q_sort"}

(***************************************************************************)
(* C14: with a NULL handle q_insert_head, q_insert_tail and q_remove_head  *)
(* return false, q_size returns 0, q_reverse, q_sort and q_free do         *)
(* nothing; no call writes through sp, allocates or frees a block, or      *)
(* changes a field or a link.                                              *)
(***************************************************************************)
C14_NullHandle ==
    [][(q = "null" /\ op'.name \in HandleOps) =>
          /\ ~op'.ret
          /\ op'.n = 0
          /\ op'.out = <<>>
          /\ UNCHANGED <<q, head, last_element, count, next, value, str,
                         nodes, strs>>]_vars

\* q_new was refused and q_remove_head is called with the NULL handle and
\* a buffer.
C14_Witness ==
    /\ q = "null"
    /\ op.name = "q_remove_head"
    /\ op.prev = "q_new"
    /\ op.sp
    /\ op.bufsize = 3

(***************************************************************************)
(* C15: the live node blocks are the nodes reachable from head, each       *)
(* once, and the live string blocks are their strings, one for each; no    *)
(* field of the queue or of a live node refers to a block that has been    *)
(* released; a successful q_remove_head releases the head node and its     *)
(* string, which were live, and nothing else; q_free on a queue releases   *)
(* every block and the queue, which nothing but q_new brings back.         *)
(***************************************************************************)
Owned ==
    /\ nodes = Range(Elements)
    /\ Cardinality(nodes) = Len(Elements)
    /\ strs = {value[n] : n \in nodes}
    /\ Cardinality(strs) = Cardinality(nodes)
    /\ head \in nodes \cup {NULL}
    /\ last_element \in nodes \cup {NULL}
    /\ \A n \in nodes : next[n] \in nodes \cup {NULL}
    /\ q # "live" => nodes = {} /\ strs = {}

ReleasedOnce ==
    /\ (op'.name = "q_remove_head" /\ op'.ret) =>
           /\ head \in nodes
           /\ value[head] \in strs
           /\ nodes' = nodes \ {head}
           /\ strs' = strs \ {value[head]}
    /\ (op'.name = "q_free" /\ q = "live") =>
           /\ q' = "freed"
           /\ nodes' = {}
           /\ strs' = {}
    /\ (op'.name \notin {"q_remove_head", "q_free"}) =>
           /\ nodes \subseteq nodes'
           /\ strs \subseteq strs'
    /\ (op'.name \notin Inserts) =>
           /\ nodes' \subseteq nodes
           /\ strs' \subseteq strs
    /\ (q = "freed" /\ q' # "freed") => op'.name = "q_new"

C15_Ownership == []Owned /\ [][ReleasedOnce]_vars

\* Three elements were inserted at the head and the last of them, in
\* block 3, has been removed and released; two nodes and two strings are
\* live.
C15_Witness ==
    /\ q = "live"
    /\ op.name = "q_remove_head"
    /\ op.ret
    /\ nIns = 3
    /\ nRem = 1
    /\ nodes = {1, 2}
    /\ strs = {1, 2}
    /\ Elements = <<2, 1>>

(***************************************************************************)
(* C16: q_reverse and q_sort only re-link: the set of nodes of the queue,  *)
(* the string of each node and count are the same after the call, and no   *)
(* node or string block is allocated or released; only next links, head    *)
(* and last_element may differ.                                            *)
(***************************************************************************)
C16_OnlyRelinks ==
    [][(op'.name \in {"q_reverse", "q_sort"}) =>
          /\ Range(Elements') = Range(Elements)
          /\ Len(Elements') = Len(Elements)
          /\ \A n \in Range(Elements) :
                 /\ value'[n] = value[n]
                 /\ str'[value'[n]] = str[value[n]]
          /\ count' = count
          /\ nodes' = nodes
          /\ strs' = strs
          /\ str' = str]_vars

\* A reversed queue of three has been sorted, and the sort has moved nodes.
C16_Witness ==
    /\ op.name = "q_sort"
    /\ op.prev = "q_reverse"
    /\ count = 3
    /\ Elements # <<1, 2, 3>>
    /\ \A i \in 1 .. 2 : Contents[i] # Contents[i + 1]

(***************************************************************************)
(* C17: following next from head reaches NULL after exactly count steps    *)
(* and meets no node twice; for a chain of n >= 2 nodes the fast/slow scan *)
(* of mergesort cuts behind node ceil(n/2), so the left part has           *)
(* ceil(n/2) nodes and the right part floor(n/2), both at least one and    *)
(* fewer than n; mergesort returns a chain of the same n nodes that ends   *)
(* in NULL.                                                                *)
(***************************************************************************)
\* The chain of the first k elements, cut behind the k-th.
CutAt(k) == [next EXCEPT ![Elements[k]] = NULL]

SplitHalves(k) ==
    LET nx == CutAt(k)
        slow == SplitScan(nx, head, head)
        left == ChainFrom(head, [nx EXCEPT ![slow] = NULL], MaxNodes + 1)
        right == ChainFrom(nx[slow], nx, MaxNodes + 1)
        m == mergesort(head, nx)
        sorted == ChainFrom(m.start, m.next, MaxNodes + 1)
    IN  /\ Len(left) = (k + 1) \div 2
        /\ Len(right) = k \div 2
        /\ Len(right) >= 1
        /\ Len(left) < k
        /\ left \o right = SubSeq(Elements, 1, k)
        /\ Len(sorted) = k
        /\ Range(sorted) = Range(left) \cup Range(right)
        /\ m.next[sorted[k]] = NULL

C17_Acyclic ==
    /\ Len(Elements) = count
    /\ Cardinality(Range(Elements)) = count
    /\ count > 0 => next[Elements[count]] = NULL
    /\ \A k \in 2 .. Len(Elements) : SplitHalves(k)

\* A queue of three, built by insertions at the head, has been sorted.
C17_Witness ==
    /\ op.name = "q_sort"
    /\ op.prev = "q_insert_head"
    /\ count = 3
    /\ next[last_element] = NULL

(***************************************************************************)
(* C18: a successful q_insert_head on a non-empty queue leaves             *)
(* last_element and the next link of every element as they were; a         *)
(* successful q_insert_tail on a non-empty queue leaves head as it was and *)
(* changes no link but the one of the former last element, which leads to  *)
(* the new element; on an empty queue either makes the new element head    *)
(* and last_element.                                                       *)
(***************************************************************************)
C18_OneEnd ==
    [][(op'.name \in Inserts /\ op'.ret) =>
          LET new == CHOOSE n \in nodes' : n \notin nodes
          IN  /\ nodes' = nodes \cup {new}
              /\ new \notin nodes
              /\ IF head = NULL
                 THEN /\ head' = new
                      /\ last_element' = new
                      /\ next'[new] = NULL
                 ELSE IF op'.name = "q_insert_head"
                 THEN /\ last_element' = last_element
                      /\ head' = new
                      /\ next'[new] = head
                      /\ \A n \in nodes : next'[n] = next[n]
                 ELSE /\ head' = head
                      /\ last_element' = new
                      /\ next'[last_element] = new
                      /\ next'[new] = NULL
                      /\ \A n \in nodes \ {last_element} :
                             next'[n] = next[n]]_vars

\* An element has been inserted at the head of a queue of two that was
\* built at the tail.
C18_Witness ==
    /\ op.name = "q_insert_head"
    /\ op.ret
    /\ op.prev = "q_insert_tail"
    /\ count = 3
    /\ head = 3
    /\ last_element = 2

====
